---- MODULE Spec2Model ----
(***************************************************************************)
(* Model of the routine execution engine of alarm_app:                     *)
(*   - Routine (routine.py): the executor with its class-level lock,       *)
(*     start / _execute / stop / validate;                                 *)
(*   - RoutineScheduler._execute_routine (scheduler.py): one firing of a   *)
(*     trigger, with the RoutineLog row it opens and closes;               *)
(*   - Routine.mark_as_run and RoutineLog (models.py).                     *)
(* Every caller owns one executor object: a firing builds its executor     *)
(* from the definition it fetched, a manual caller constructs one itself.  *)
(* Each thread of the program is a process; one action is one step of a    *)
(* thread between two points where another thread can be scheduled.        *)
(***************************************************************************)
EXTENDS Integers, Sequences, FiniteSets, TLC

\* ---------------------------------------------------------------- bounds
MaxSteps == 2
MaxFirings == 1

\* ------------------------------------------------------------- constants
Defs == {"d1", "d2"}
Manuals == {"m1"}
Callers == Defs \cup Manuals
None == "None"
Free == "free"

\* A step configuration: the type tag and whether its config map passes the
\* step's validate_config (required fields present).
StepConfigs ==
    { [type |-> "alarm", config_ok |-> TRUE],
      [type |-> "alarm", config_ok |-> FALSE],
      [type |-> "unknown_type", config_ok |-> TRUE] }

ROUTINE_STEP_REGISTRY ==
    [alarm |-> "Alarm", news |-> "News", weather |-> "WeatherUtil", url_opener |-> "URLOpener",
     quote |-> "QuoteFetcher"]

RECURSIVE SeqsUpTo(_, _)
SeqsUpTo(S, n) ==
    IF n = 0 THEN { <<>> }
    ELSE LET shorter == SeqsUpTo(S, n - 1)
         IN shorter \cup { Append(s, x) : s \in { t \in shorter : Len(t) = n - 1 }, x \in S }

StepLists == SeqsUpTo(StepConfigs, MaxSteps)
Names == {"", "Wake"}

\* ------------------------------------------------------------- variables
VARIABLES
    store,              \* Routine rows: the definition store
    logs,               \* RoutineLog rows of each definition, in creation order
    now,                \* timezone.now() as read by each firing
    execution_lock,     \* Routine._execution_lock: Free or the caller whose acquire succeeded
    currently_running,  \* Routine._currently_running
    pc,                 \* position of each caller
    xpc,                \* position of each executor's _execute, up to the release of the lock
    tail,               \* position of a thread of the executor in the rest of the finally clause
    name,               \* Routine.name
    steps_config,       \* Routine.steps_config
    steps,              \* Routine.steps
    stop_event,         \* Routine._stop_event
    blocking,           \* argument of the current start() call
    result,             \* value returned by the last start() call
    i,                  \* loop index of _execute (1-based)
    routine_model,      \* the row fetched by the firing
    log,                \* index in logs of the firing's row, 0 if none
    runs,               \* number of log rows opened for each definition
    invoked,            \* history: steps whose execute() was invoked in the run
    returned,           \* history: steps whose execute() returned in the run
    sawFalse,           \* history: some execute() of the run returned False
    outcome,            \* history: how the step loop of the run ended
    acquired,           \* history: the caller's current call acquired the lock
    stopAt,             \* history: Len(invoked) at the first stop() of the run
    schedule,           \* Routine rows: the schedule fields of each definition
    jobs,               \* the jobs of RoutineScheduler._scheduler
    rpc,                \* position of the caller of reload_schedules
    routines,           \* the rows reload_schedules has read and still has to schedule
    lastReload,         \* history of the current or last reload_schedules call
    lastOp,             \* history: the last single-definition operation of the scheduler
    onceFired,          \* history: the one-time trigger of the definition has fired
    scheduledSteps,     \* history: steps_json of the definition when its job was added
    together,           \* history, where Init records it: the firing began while another one
                        \* had not yet tried the lock
    process,            \* RoutineStep._process of the step in execution: none, alive or dead
    step_stop_event,    \* the steps of each executor whose RoutineStep._stop_event is set
    direct              \* a step object whose execute() is called directly, outside a routine

\* the variables of the scheduler's trigger set
schedVars == << schedule, jobs, rpc, routines, lastReload, lastOp, onceFired, scheduledSteps,
                together >>

\* the variables of the steps' external processes
stepVars == << process, step_stop_event, direct >>

vars == << store, logs, now, execution_lock, currently_running, pc, xpc, tail, name,
           steps_config, steps, stop_event, blocking, result, i, routine_model,
           log, runs, invoked, returned, sawFalse, outcome, acquired, stopAt,
           schedule, jobs, rpc, routines, lastReload, lastOp, onceFired, scheduledSteps,
           together, process, step_stop_event, direct >>

\* ------------------------------------------------ routine_steps.py helpers
\* create_routine_step: the registered class of a tag, or None
create_routine_step(step_type) ==
    IF step_type \in DOMAIN ROUTINE_STEP_REGISTRY
    THEN ROUTINE_STEP_REGISTRY[step_type] ELSE None

\* _build_steps that gives up at the first unknown tag
RECURSIVE build_steps_until_unknown(_)
build_steps_until_unknown(cfg) ==
    IF cfg = <<>> THEN <<>>
    ELSE LET head == cfg[1]
             cls == create_routine_step(head.type)
         IN IF cls # None
            THEN << [cls |-> cls, config_ok |-> head.config_ok] >>
                 \o build_steps_until_unknown(Tail(cfg))
            ELSE <<>>

\* Routine._build_steps: the steps of the configs whose tag is registered
RECURSIVE build_steps(_)
build_steps(cfg) ==
    IF cfg = <<>> THEN <<>>
    ELSE LET head == cfg[1]
             cls == create_routine_step(head.type)
         IN IF cls # None
            THEN << [cls |-> cls, config_ok |-> head.config_ok] >> \o build_steps(Tail(cfg))
            ELSE build_steps(Tail(cfg))

\* RoutineStep.validate_config of the modelled variant (Alarm)
validate_config(step) ==
    IF step.config_ok THEN << TRUE, None >> ELSE << FALSE, "audio_file is required" >>

RECURSIVE step_errors(_, _)
step_errors(stepList, k) ==
    IF k > Len(stepList) THEN <<>>
    ELSE LET v == validate_config(stepList[k])
         IN (IF v[1] THEN <<>>
             ELSE << "Step " \o ToString(k) \o " (" \o stepList[k].cls \o "): " \o v[2] >>)
            \o step_errors(stepList, k + 1)

\* Routine.validate: the ordered error list
validate_errors(nm, cfg, stepList) ==
    (IF nm = "" THEN << "Routine name is required" >> ELSE <<>>)
    \o (IF cfg = <<>> THEN << "Routine must have at least one step" >> ELSE <<>>)
    \o step_errors(stepList, 1)

is_valid_always(errors) == TRUE
is_valid(errors) == Len(errors) = 0

validate(c) ==
    LET errors == validate_errors(name[c], steps_config[c], steps[c])
    IN << is_valid(errors), errors >>

\* "; ".join(errors)
RECURSIVE join(_)
join(errors) ==
    IF errors = <<>> THEN ""
    ELSE IF Len(errors) = 1 THEN errors[1]
    ELSE errors[1] \o "; " \o join(Tail(errors))

\* what execute() of a step can do: return True, return False, or raise
execute_outcomes(step) ==
    IF step.config_ok THEN {"ok", "fail", "raise"} ELSE {"fail"}

\* ------------------------------- routine_steps.py: the registered variants
\* the number 0 as a value of a config map (the values are written as strings)
Zero == "0"

\* Python's "not value" for the values a config map holds here
Falsy(value) == value \in { None, "", Zero }

\* config maps of the five registered variants; exists stands for
\* os.path.exists(audio_file)
DirectConfigs ==
    { [type |-> "alarm", audio_file |-> a, exists |-> e, duration |-> d] :
        a \in { None, "", "a.wav" }, e \in BOOLEAN, d \in { None, "5" } }
    \cup { [type |-> "news", rss_url |-> u] : u \in { None, "", "http://feed" } }
    \cup { [type |-> "weather", latitude |-> la, longitude |-> lo] :
             la \in { None, Zero, "40.7" }, lo \in { None, Zero, "-74.0" } }
    \cup { [type |-> "url_opener", url |-> u, message |-> m] :
             u \in { None, "", "http://page" }, m \in { None, "hello" } }
    \cup { [type |-> "quote", intro_text |-> t] : t \in { None, "Quote" } }

\* validate_config of each variant: << is_valid, error message >>
validate_config_of(cfg) ==
    IF cfg.type = "alarm"
    THEN IF Falsy(cfg.audio_file) THEN << FALSE, "audio_file is required" >>
         ELSE IF ~cfg.exists THEN << FALSE, "Audio file not found: " \o cfg.audio_file >>
         ELSE << TRUE, None >>
    ELSE IF cfg.type = "news"
    THEN IF Falsy(cfg.rss_url) THEN << FALSE, "rss_url is required" >> ELSE << TRUE, None >>
    ELSE IF cfg.type = "weather"
    THEN IF Falsy(cfg.latitude) \/ Falsy(cfg.longitude)
         THEN << FALSE, "latitude and longitude are required" >>
         ELSE << TRUE, None >>
    ELSE IF cfg.type = "url_opener"
    THEN IF Falsy(cfg.url) THEN << FALSE, "url is required" >> ELSE << TRUE, None >>
    ELSE << TRUE, None >>

\* an Alarm.execute that only looks for the key audio_file
returns_early_without_exists(cfg) ==
    IF cfg.type = "alarm" THEN Falsy(cfg.audio_file)
    ELSE IF cfg.type = "news" THEN Falsy(cfg.rss_url)
    ELSE IF cfg.type = "weather" THEN Falsy(cfg.latitude) \/ Falsy(cfg.longitude)
    ELSE IF cfg.type = "url_opener" THEN Falsy(cfg.url)
    ELSE FALSE
\* execute of each variant: the tests that make it return False before it
\* does anything (Alarm 99-101, News 160-162, WeatherUtil 312-316,
\* URLOpener 439-443; QuoteFetcher has none)
returns_early(cfg) ==
    IF cfg.type = "alarm" THEN Falsy(cfg.audio_file) \/ ~cfg.exists
    ELSE IF cfg.type = "news" THEN Falsy(cfg.rss_url)
    ELSE IF cfg.type = "weather" THEN Falsy(cfg.latitude) \/ Falsy(cfg.longitude)
    ELSE IF cfg.type = "url_opener" THEN Falsy(cfg.url)
    ELSE FALSE

\* execute of each variant: what it does, in order, once it is past its tests
actions_of(cfg) ==
    IF cfg.type = "alarm" THEN << "play" >>
    ELSE IF cfg.type = "news" THEN << "feed", "images", "tts" >>
    ELSE IF cfg.type = "weather" THEN << "points", "forecast", "tts" >>
    ELSE IF cfg.type = "url_opener"
    THEN (IF Falsy(cfg.message) THEN << >> ELSE << "tts" >>) \o << "browser" >>
    ELSE << "quote", "tts" >>

\* no step is executed directly
NoStep == [at |-> "none"]

\* a step object of a variant, built with a config map
StepObject(cfg) ==
    [at |-> "new", config |-> cfg, valid |-> << >>, done |-> << >>, result |-> "none"]

\* ------------------------------------------------------------------ Init
Definition(n, s, e) ==
    [name |-> n, steps_json |-> s, enabled |-> e, last_run |-> 0, run_count |-> 0]

DefinitionValues == { Definition(n, s, e) : n \in Names, s \in StepLists, e \in BOOLEAN }

ValidStep == [type |-> "alarm", config_ok |-> TRUE]
ValidSteps(n) == [k \in 1..n |-> ValidStep]

NoModel == Definition("", <<>>, FALSE)

\* the state after construction, for a given content of the definition store,
\* apart from the flags of the steps
InitRoutine(rows) ==
    /\ direct = NoStep
    /\ store \in rows
    /\ logs = [d \in Defs |-> <<>>]
    /\ now = [d \in Defs |-> 1]
    /\ execution_lock = Free
    /\ currently_running = None
    /\ pc = [c \in Callers |-> IF c \in Defs THEN "idle" ELSE "noobj"]
    /\ xpc = [c \in Callers |-> "none"]
    /\ tail = [c \in Callers |-> "none"]
    /\ name = [c \in Callers |-> ""]
    /\ steps_config = [c \in Callers |-> <<>>]
    /\ steps = [c \in Callers |-> <<>>]
    /\ stop_event = [c \in Callers |-> FALSE]
    /\ blocking = [c \in Callers |-> TRUE]
    /\ result = [c \in Callers |-> "none"]
    /\ i = [c \in Callers |-> 0]
    /\ routine_model = [d \in Defs |-> NoModel]
    /\ log = [d \in Defs |-> 0]
    /\ runs = [d \in Defs |-> 0]
    /\ invoked = [c \in Callers |-> <<>>]
    /\ returned = [c \in Callers |-> <<>>]
    /\ sawFalse = [c \in Callers |-> FALSE]
    /\ outcome = [c \in Callers |-> "none"]
    /\ acquired = [c \in Callers |-> FALSE]
    /\ stopAt = [c \in Callers |-> 0]
    /\ process = [c \in Callers |-> "none"]
    /\ scheduledSteps = [d \in Defs |-> store[d].steps_json]

\* the flags of the steps are not followed
InitWith(rows) ==
    /\ InitRoutine(rows)
    /\ step_stop_event = << >>

\* RoutineStep.__init__, routine_steps.py 27-36: no step has its flag set
InitWithSteps(rows) ==
    /\ InitRoutine(rows)
    /\ step_stop_event = [c \in Callers |-> {}]

\* ------------------------------------------- models.py: the schedule fields
\* scheduled_datetime and time_of_day are nullable: 0 and <<>> stand for NULL
NullDatetime == 0
NullTime == << >>

\* schedule_type 'once' with its scheduled_datetime
Once(at) ==
    [schedule_type |-> "once", scheduled_datetime |-> at, time_of_day |-> NullTime, days |-> {}]

\* schedule_type 'recurring' with its time_of_day <<hour, minute>> and the
\* weekday flags that are set
Recurring(t, flags) ==
    [schedule_type |-> "recurring", scheduled_datetime |-> NullDatetime, time_of_day |-> t,
     days |-> flags]

\* the schedules a row can hold: well-formed ones, and ones that lack the
\* timestamp, the time of day or the weekdays
ScheduleValues ==
    { Once(5), Once(NullDatetime),
      Recurring(<< 7, 0 >>, {"monday", "wednesday", "friday"}),
      Recurring(<< 0, 0 >>, {"sunday"}),
      Recurring(NullTime, {"monday"}),
      Recurring(<< 7, 0 >>, {}) }

\* the weekday flags where saturday and sunday get each other's name
DayFlagsWeekendSwapped ==
    << << "monday", "mon" >>, << "tuesday", "tue" >>, << "wednesday", "wed" >>,
       << "thursday", "thu" >>, << "friday", "fri" >>, << "saturday", "sun" >>,
       << "sunday", "sat" >> >>
\* the weekday flags of a row with the names _schedule_routine gives them
DayFlags ==
    << << "monday", "mon" >>, << "tuesday", "tue" >>, << "wednesday", "wed" >>,
       << "thursday", "thu" >>, << "friday", "fri" >>, << "saturday", "sat" >>,
       << "sunday", "sun" >> >>

\* ",".join(days)
RECURSIVE comma_join(_)
comma_join(days) ==
    IF days = <<>> THEN ""
    ELSE IF Len(days) = 1 THEN days[1]
    ELSE days[1] \o "," \o comma_join(Tail(days))

DateTrigger(run_date) == [kind |-> "date", run_date |-> run_date]

CronTrigger(day_of_week, hour, minute, second) ==
    [kind |-> "cron", day_of_week |-> day_of_week, hour |-> hour, minute |-> minute,
     second |-> second]

\* _schedule_routine, lines 98-153: the trigger built for a row, as a
\* sequence of at most one trigger
schedule_trigger(row) ==
    IF row.schedule_type = "once"
    THEN IF row.scheduled_datetime # NullDatetime
         THEN << DateTrigger(row.scheduled_datetime) >>
         ELSE << >>
    ELSE IF row.schedule_type = "recurring"
    THEN IF row.time_of_day = NullTime THEN << >>
         ELSE LET set == SelectSeq(DayFlags, LAMBDA flag : flag[1] \in row.days)
                  days == [k \in 1..Len(set) |-> set[k][2]]
              IN IF days = << >> THEN << >>
                 ELSE << CronTrigger(comma_join(days), row.time_of_day[1],
                                     row.time_of_day[2], 0) >>
    ELSE << >>

\* the weekday flags of a row, monday first
Weekday == << "monday", "tuesday", "wednesday", "thursday", "friday", "saturday", "sunday" >>

\* the names CronTrigger knows for the weekdays of day_of_week, monday first
WEEKDAYS == << "mon", "tue", "wed", "thu", "fri", "sat", "sun" >>

\* day_of_week.split(","), as CronTrigger reads its day_of_week expression
RECURSIVE split(_)
split(str) ==
    LET commas == { k \in 1..Len(str) : SubSeq(str, k, k) = "," }
    IN IF commas = {} THEN << str >>
       ELSE LET k == CHOOSE c \in commas : \A other \in commas : c <= other
            IN << SubSeq(str, 1, k - 1) >> \o split(SubSeq(str, k + 1, Len(str)))

\* the weekdays on which a cron trigger fires: those its day_of_week names
fire_days(trigger) ==
    LET names == split(trigger.day_of_week)
    IN { Weekday[k] : k \in { n \in 1..7 : \E p \in 1..Len(names) : names[p] = WEEKDAYS[n] } }

\* an add_job that keeps the job the id already has
add_job_keeping(js, id, trigger) ==
    js \cup { [id |-> id, trigger |-> trigger, paused |-> FALSE] }
\* BackgroundScheduler.add_job(id=job_id, replace_existing=True)
add_job(js, id, trigger) ==
    { j \in js : j.id # id } \cup { [id |-> id, trigger |-> trigger, paused |-> FALSE] }

\* history of a reload_schedules call: it has returned and no definition was
\* edited since (settled), the jobs when it was called (before), it was
\* called when the previous call was settled (successive), the read of the
\* store raised in this call (store_error) or in the call before it
\* (store_error_before), and the rows whose _schedule_routine raised in this
\* call (failed) and in the call before it (failed_before)
NoReload ==
    [settled |-> FALSE, before |-> {}, successive |-> FALSE, store_error |-> FALSE,
     store_error_before |-> FALSE, failed |-> {}, failed_before |-> {}]

\* history of the last single-definition operation (schedule, remove, pause
\* or resume): its id, whether the id had a job when it was called, whether
\* it raised to its caller, and a bit that changes with every operation
NoOp == [op |-> "none", id |-> "none", had |-> FALSE, raised |-> FALSE, bit |-> 0]

\* no operation was called and no trigger has fired yet
NoHistory ==
    /\ lastReload = NoReload
    /\ lastOp = NoOp
    /\ onceFired = [d \in Defs |-> FALSE]

\* a recurring trigger for every definition
CronScheduled ==
    /\ schedule = [d \in Defs |-> Recurring(<< 7, 0 >>, {"monday", "wednesday", "friday"})]
    /\ jobs = { [id |-> d, trigger |-> CronTrigger("mon,wed,fri", 7, 0, 0), paused |-> FALSE] :
                  d \in Defs }
    /\ rpc = "idle"
    /\ routines = << >>
    /\ NoHistory

\* the scheduler at rest with a recurring trigger for every definition;
\* firings that begin together are not recorded
AllScheduled ==
    /\ CronScheduled
    /\ together = << >>

\* one enabled definition of MaxSteps valid steps and one disabled definition
Init ==
    /\ AllScheduled
    /\ InitWith({ [d \in Defs |-> IF d = "d1" THEN Definition("Wake", ValidSteps(MaxSteps), TRUE)
                                ELSE Definition("Nap", ValidSteps(1), FALSE)] })

\* any definition for d1, next to an enabled one-step definition d2
InitFire ==
    /\ AllScheduled
    /\ InitWith({ [d \in Defs |-> IF d = "d1" THEN v ELSE Definition("Nap", ValidSteps(1), TRUE)] :
                 v \in DefinitionValues })

\* for d1 a definition that runs one step, one that fails validation
\* and one without a known step, next to an enabled one-step definition d2
InitLive ==
    /\ AllScheduled
    /\ InitWith({ [d \in Defs |-> IF d = "d1" THEN v ELSE Definition("Nap", ValidSteps(1), TRUE)] :
                 v \in { Definition("Wake", ValidSteps(1), TRUE),
                         Definition("", ValidSteps(1), TRUE),
                         Definition("Wake", << [type |-> "unknown_type", config_ok |-> TRUE] >>,
                                    TRUE) } })

\* ------------------------------------------------ scheduler.py: a firing
\* a get that does not filter on enabled
get_any(row) == TRUE
\* Routine.objects.get(id=routine_id, enabled=True), line 182: the row is
\* found
get_enabled(row) == row.enabled

\* a job of the scheduler fires and calls _execute_routine, lines 180-189
\* and 238-239: re-fetch the enabled row and open the log row; a missing or
\* disabled row ends the firing. The job of a date trigger leaves the job
\* store when it fires.
FireFetch(f) ==
    /\ pc[f] = "idle"
    /\ runs[f] < MaxFirings
    /\ \E j \in jobs :
          /\ j.id = f
          /\ ~j.paused
          /\ jobs' = IF j.trigger.kind = "date" THEN jobs \ { j } ELSE jobs
          /\ onceFired' = [onceFired EXCEPT ![f] = @ \/ j.trigger.kind = "date"]
    /\ IF get_enabled(store[f])
       THEN /\ runs' = [runs EXCEPT ![f] = @ + 1]
            /\ routine_model' = [routine_model EXCEPT ![f] = store[f]]
            /\ logs' = [logs EXCEPT ![f] = Append(@, [routine |-> f, started_at |-> now[f],
                                                      completed_at |-> 0, status |-> "started",
                                                      error_message |-> ""])]
            /\ log' = [log EXCEPT ![f] = Len(logs[f]) + 1]
            /\ now' = [now EXCEPT ![f] = @ + 1]
            /\ pc' = [pc EXCEPT ![f] = "build"]
            /\ LET others == { g \in Defs \ { f } : pc[g] \in {"build", "start"} }
               IN together' = [d \in DOMAIN together |-> IF d = f THEN others # {}
                                                         ELSE together[d] \/ d \in others]
       ELSE /\ pc' = [pc EXCEPT ![f] = "done"]
            /\ UNCHANGED << runs, routine_model, log, logs, now, together >>
    /\ UNCHANGED << store, execution_lock, currently_running, xpc, tail, name, steps_config,
                    steps, stop_event, blocking, result, i, invoked, returned, sawFalse, outcome,
                    acquired, stopAt >>
    /\ UNCHANGED << schedule, rpc, routines, lastReload, lastOp, scheduledSteps >>
    /\ UNCHANGED stepVars

\* the executor object and the history of its run are dropped
Forget(c) ==
    /\ name' = [name EXCEPT ![c] = ""]
    /\ steps_config' = [steps_config EXCEPT ![c] = <<>>]
    /\ steps' = [steps EXCEPT ![c] = <<>>]
    /\ stop_event' = [stop_event EXCEPT ![c] = FALSE]
    /\ blocking' = [blocking EXCEPT ![c] = TRUE]
    /\ result' = [result EXCEPT ![c] = "none"]
    /\ i' = [i EXCEPT ![c] = 0]
    /\ invoked' = [invoked EXCEPT ![c] = <<>>]
    /\ returned' = [returned EXCEPT ![c] = <<>>]
    /\ sawFalse' = [sawFalse EXCEPT ![c] = FALSE]
    /\ outcome' = [outcome EXCEPT ![c] = "none"]
    /\ acquired' = [acquired EXCEPT ![c] = FALSE]
    /\ stopAt' = [stopAt EXCEPT ![c] = 0]
    /\ step_stop_event' = [k \in DOMAIN step_stop_event |->
                               IF k = c THEN {} ELSE step_stop_event[k]]

\* _execute_routine returns: its locals (row, log, executor) go out of scope
FireEnd(f) ==
    /\ pc[f] = "done"
    /\ pc' = [pc EXCEPT ![f] = "idle"]
    /\ routine_model' = [routine_model EXCEPT ![f] = NoModel]
    /\ log' = [log EXCEPT ![f] = 0]
    /\ Forget(f)
    /\ together' = [d \in DOMAIN together |-> d # f /\ together[d]]
    /\ UNCHANGED << store, logs, now, execution_lock, currently_running, xpc, tail, runs >>
    /\ UNCHANGED << schedule, jobs, rpc, routines, lastReload, lastOp, onceFired,
                    scheduledSteps >>
    /\ UNCHANGED << process, direct >>

\* the fields are assigned but log.save() is not called
close_log_unsaved(f, status, message) == logs

\* RoutineLog save of a terminal status (scheduler.py 209-212, 219-221, 233-236)
close_log(f, status, message) ==
    [logs EXCEPT ![f][log[f]] = [@ EXCEPT !.status = status, !.error_message = message,
                                          !.completed_at = now[f]]]

\* a configuration with the steps the row had when its job was added
config_at_add_job(f) == [name |-> routine_model[f].name, steps |-> scheduledSteps[f]]
\* routine_model.to_routine_config(), line 193: name and steps of the row
\* the firing fetched
to_routine_config(f) == [name |-> routine_model[f].name, steps |-> routine_model[f].steps_json]

\* _execute_routine, lines 192-213: build the executor, validate it, and on
\* a validation error close the row as failed and return.
FireBuild(f) ==
    /\ pc[f] = "build"
    /\ LET config == to_routine_config(f)
           built == build_steps(config.steps)
           errors == validate_errors(config.name, config.steps, built)
       IN /\ name' = [name EXCEPT ![f] = config.name]
          /\ steps_config' = [steps_config EXCEPT ![f] = config.steps]
          /\ steps' = [steps EXCEPT ![f] = built]
          /\ IF is_valid(errors)
             THEN /\ pc' = [pc EXCEPT ![f] = "start"]
                  /\ blocking' = [blocking EXCEPT ![f] = TRUE]
                  /\ UNCHANGED << logs, now >>
             ELSE /\ logs' = close_log(f, "failed", join(errors))
                  /\ now' = [now EXCEPT ![f] = @ + 1]
                  /\ pc' = [pc EXCEPT ![f] = "done"]
                  /\ UNCHANGED blocking
    /\ UNCHANGED << store, execution_lock, currently_running, xpc, tail, stop_event, result, i,
                    routine_model, log, runs, invoked, returned, sawFalse, outcome, acquired,
                    stopAt >>
    /\ UNCHANGED schedVars
    /\ UNCHANGED stepVars

\* ------------------------------------------------- routine.py: a manual caller
\* Routine.__init__, lines 26-50
Construct(m, nm, cfg) ==
    /\ pc[m] = "noobj"
    /\ name' = [name EXCEPT ![m] = nm]
    /\ steps_config' = [steps_config EXCEPT ![m] = cfg]
    /\ steps' = [steps EXCEPT ![m] = build_steps(cfg)]
    /\ pc' = [pc EXCEPT ![m] = "idle"]
    /\ UNCHANGED << store, logs, now, execution_lock, currently_running, xpc, tail, stop_event,
                    blocking, result, i, routine_model, log, runs, invoked, returned, sawFalse,
                    outcome, acquired, stopAt >>
    /\ UNCHANGED schedVars
    /\ UNCHANGED stepVars

\* the manual caller drops its executor once no run of it is in progress
Dispose(m) ==
    /\ pc[m] \in {"idle", "returned"}
    /\ xpc[m] = "none"
    /\ tail[m] = "none"
    /\ pc' = [pc EXCEPT ![m] = "noobj"]
    /\ Forget(m)
    /\ UNCHANGED << store, logs, now, execution_lock, currently_running, xpc, tail,
                    routine_model, log, runs >>
    /\ UNCHANGED schedVars
    /\ UNCHANGED << process, direct >>

\* a manual caller calls start(blocking=b)
Call(m, b) ==
    /\ pc[m] \in {"idle", "returned"}
    /\ blocking' = [blocking EXCEPT ![m] = b]
    /\ result' = [result EXCEPT ![m] = "none"]
    /\ acquired' = [acquired EXCEPT ![m] = FALSE]
    /\ pc' = [pc EXCEPT ![m] = "start"]
    /\ UNCHANGED << store, logs, now, execution_lock, currently_running, xpc, tail, name,
                    steps_config, steps, stop_event, i, routine_model, log, runs, invoked,
                    returned, sawFalse, outcome, stopAt >>
    /\ UNCHANGED schedVars
    /\ UNCHANGED stepVars

\* ------------------------------------------------------ routine.py: start
\* a firing that goes back to the call of start
AfterStartAgain(c) == IF c \in Defs THEN "start" ELSE "returned"
AfterStart(c) == IF c \in Defs THEN "after_start" ELSE "returned"

\* Lock.acquire(blocking=False), line 79
can_acquire_always(lock) == TRUE
can_acquire(lock) == lock = Free

\* start without the early return of line 83
StartFallsThrough(c) ==
    /\ pc[c] = "start"
    /\ execution_lock' = IF can_acquire(execution_lock) THEN c ELSE execution_lock
    /\ acquired' = [acquired EXCEPT ![c] = can_acquire(execution_lock)]
    /\ pc' = [pc EXCEPT ![c] = "acquired"]
    /\ invoked' = [invoked EXCEPT ![c] = <<>>]
    /\ returned' = [returned EXCEPT ![c] = <<>>]
    /\ sawFalse' = [sawFalse EXCEPT ![c] = FALSE]
    /\ outcome' = [outcome EXCEPT ![c] = "none"]
    /\ stopAt' = [stopAt EXCEPT ![c] = 0]
    /\ UNCHANGED << store, logs, now, currently_running, xpc, tail, name, steps_config, steps,
                    stop_event, blocking, result, i, routine_model, log, runs >>
    /\ UNCHANGED schedVars
    /\ UNCHANGED stepVars

\* start, lines 78-83: the non-blocking try of the class-level lock
Start(c) ==
    /\ pc[c] = "start"
    /\ IF can_acquire(execution_lock)
       THEN /\ execution_lock' = c
            /\ acquired' = [acquired EXCEPT ![c] = TRUE]
            /\ pc' = [pc EXCEPT ![c] = "acquired"]
            /\ invoked' = [invoked EXCEPT ![c] = <<>>]
            /\ returned' = [returned EXCEPT ![c] = <<>>]
            /\ sawFalse' = [sawFalse EXCEPT ![c] = FALSE]
            /\ outcome' = [outcome EXCEPT ![c] = "none"]
            /\ stopAt' = [stopAt EXCEPT ![c] = 0]
            /\ UNCHANGED result
       ELSE /\ result' = [result EXCEPT ![c] = "False"]
            /\ pc' = [pc EXCEPT ![c] = AfterStart(c)]
            /\ UNCHANGED << execution_lock, acquired, invoked, returned, sawFalse, outcome,
                            stopAt >>
    /\ UNCHANGED << store, logs, now, currently_running, xpc, tail, name, steps_config, steps,
                    stop_event, blocking, i, routine_model, log, runs >>
    /\ UNCHANGED schedVars
    /\ UNCHANGED stepVars

\* start, lines 86-89: record the running routine; a blocking call enters
\* _execute in the caller's own context
SetRunning(c) ==
    /\ pc[c] = "acquired"
    /\ currently_running' = name[c]
    /\ IF blocking[c]
       THEN /\ pc' = [pc EXCEPT ![c] = "in_execute"]
            /\ xpc' = [xpc EXCEPT ![c] = "check"]
            /\ i' = [i EXCEPT ![c] = 1]
       ELSE /\ pc' = [pc EXCEPT ![c] = "spawn"]
            /\ UNCHANGED << xpc, i >>
    /\ UNCHANGED << store, logs, now, execution_lock, tail, name, steps_config, steps,
                    stop_event, blocking, result, routine_model, log, runs, invoked,
                    returned, sawFalse, outcome, acquired, stopAt >>
    /\ UNCHANGED schedVars
    /\ UNCHANGED stepVars

\* a start that gives the lock back when it has started the thread
SpawnReleasing(c) ==
    /\ pc[c] = "spawn"
    /\ xpc' = [xpc EXCEPT ![c] = "check"]
    /\ i' = [i EXCEPT ![c] = 1]
    /\ result' = [result EXCEPT ![c] = "True"]
    /\ pc' = [pc EXCEPT ![c] = AfterStart(c)]
    /\ execution_lock' = Free
    /\ UNCHANGED << store, tail, logs, now, currently_running, name,
                    steps_config, steps, stop_event, blocking, routine_model, log, runs,
                    invoked, returned, sawFalse, outcome, acquired, stopAt >>
    /\ UNCHANGED schedVars
    /\ UNCHANGED stepVars
\* start, lines 91-97: the thread is started and start returns True
Spawn(c) ==
    /\ pc[c] = "spawn"
    /\ xpc' = [xpc EXCEPT ![c] = "check"]
    /\ i' = [i EXCEPT ![c] = 1]
    /\ result' = [result EXCEPT ![c] = "True"]
    /\ pc' = [pc EXCEPT ![c] = AfterStart(c)]
    /\ UNCHANGED << store, tail, logs, now, execution_lock, currently_running, name,
                    steps_config, steps, stop_event, blocking, routine_model, log, runs,
                    invoked, returned, sawFalse, outcome, acquired, stopAt >>
    /\ UNCHANGED schedVars
    /\ UNCHANGED stepVars

\* start, lines 99-103: Thread.start raised; the handler releases the lock
SpawnError(c) ==
    /\ pc[c] = "spawn"
    /\ execution_lock' = Free
    /\ currently_running' = None
    /\ result' = [result EXCEPT ![c] = "False"]
    /\ pc' = [pc EXCEPT ![c] = AfterStart(c)]
    /\ UNCHANGED << store, logs, now, xpc, tail, name, steps_config, steps, stop_event,
                    blocking, i, routine_model, log, runs, invoked, returned, sawFalse, outcome,
                    acquired, stopAt >>
    /\ UNCHANGED schedVars
    /\ UNCHANGED stepVars

\* --------------------------------------------------- routine.py: _execute
InBody(c) == xpc[c] \in {"check", "invoke", "executing"}

\* line 112: self._stop_event.is_set()
stop_requested(flag) == flag

\* _execute, lines 111-116 and 131-132: the loop head, with the test of the
\* cancellation flag before the next step
CheckStop(c) ==
    /\ xpc[c] = "check"
    /\ IF i[c] > Len(steps[c])
       THEN /\ outcome' = [outcome EXCEPT ![c] = "completed"]
            /\ xpc' = [xpc EXCEPT ![c] = "release"]
       ELSE IF stop_requested(stop_event[c])
       THEN /\ outcome' = [outcome EXCEPT ![c] = "stopped"]
            /\ xpc' = [xpc EXCEPT ![c] = "release"]
       ELSE /\ xpc' = [xpc EXCEPT ![c] = "invoke"]
            /\ UNCHANGED outcome
    /\ UNCHANGED << store, tail, logs, now, execution_lock, currently_running, pc, name,
                    steps_config, steps, stop_event, blocking, result, i, routine_model,
                    log, runs, invoked, returned, sawFalse, acquired, stopAt >>
    /\ UNCHANGED schedVars
    /\ UNCHANGED stepVars

\* _execute, lines 118-123: step.execute() is called
Invoke(c) ==
    /\ xpc[c] = "invoke"
    /\ invoked' = [invoked EXCEPT ![c] = Append(@, i[c])]
    /\ xpc' = [xpc EXCEPT ![c] = "executing"]
    /\ UNCHANGED << store, tail, logs, now, execution_lock, currently_running, pc, name,
                    steps_config, steps, stop_event, blocking, result, i, routine_model,
                    log, runs, returned, sawFalse, outcome, acquired, stopAt >>
    /\ UNCHANGED schedVars
    /\ UNCHANGED stepVars

\* Alarm.execute, routine_steps.py 99-109: the step in execution starts its
\* external process
Popen(c) ==
    /\ xpc[c] = "executing"
    /\ process[c] = "none"
    /\ steps[c][i[c]].config_ok
    /\ process' = [process EXCEPT ![c] = "alive"]
    /\ UNCHANGED << store, tail, logs, now, execution_lock, currently_running, pc, xpc, name,
                    steps_config, steps, stop_event, blocking, result, i, routine_model,
                    log, runs, invoked, returned, sawFalse, outcome, acquired, stopAt >>
    /\ UNCHANGED schedVars
    /\ UNCHANGED << step_stop_event, direct >>

\* lines 125-129: a false return is only reported, the loop goes on
continue_on_success_only(success) == success
continue_after(success) == TRUE

\* enumerate(self.steps), line 111: the next loop index
same_index(k) == k
next_index(k) == k + 1

\* _execute, lines 123-129 and 134-135: execute() returns a boolean, or
\* raises and the handler ends the loop. Once the step has started its
\* process, execute() returns True when the process has exited
\* (routine_steps.py 121-123).
StepReturn(c, r) ==
    /\ xpc[c] = "executing"
    /\ r \in execute_outcomes(steps[c][i[c]])
    /\ process[c] # "none" => r = "ok"
    /\ process' = [process EXCEPT ![c] = "none"]
    /\ IF r = "raise"
       THEN /\ outcome' = [outcome EXCEPT ![c] = "error"]
            /\ xpc' = [xpc EXCEPT ![c] = "release"]
            /\ UNCHANGED << returned, sawFalse, i >>
       ELSE /\ returned' = [returned EXCEPT ![c] = Append(@, i[c])]
            /\ sawFalse' = [sawFalse EXCEPT ![c] = @ \/ r = "fail"]
            /\ IF continue_after(r = "ok")
               THEN /\ i' = [i EXCEPT ![c] = next_index(@)]
                    /\ xpc' = [xpc EXCEPT ![c] = "check"]
                    /\ UNCHANGED outcome
               ELSE /\ outcome' = [outcome EXCEPT ![c] = "completed"]
                    /\ xpc' = [xpc EXCEPT ![c] = "release"]
                    /\ UNCHANGED i
    /\ UNCHANGED << store, tail, logs, now, execution_lock, currently_running, pc, name,
                    steps_config, steps, stop_event, blocking, result, routine_model,
                    log, runs, invoked, acquired, stopAt >>
    /\ UNCHANGED schedVars
    /\ UNCHANGED << step_stop_event, direct >>

\* the finally clause, lines 137-139, runs on every way out of the loop
released_unless_error(how) == how # "error"
released_on(how) == TRUE

\* _execute, line 139: Routine._execution_lock.release(). From here on the
\* thread no longer excludes a new run, of this executor or of another one.
ReleaseLock(c) ==
    /\ xpc[c] = "release"
    /\ tail[c] = "none"
    /\ execution_lock' = IF released_on(outcome[c]) THEN Free ELSE execution_lock
    /\ xpc' = [xpc EXCEPT ![c] = "none"]
    /\ tail' = [tail EXCEPT ![c] = "clear_running"]
    /\ UNCHANGED << store, logs, now, currently_running, pc, name, steps_config, steps,
                    stop_event, blocking, result, i, routine_model, log, runs, invoked,
                    returned, sawFalse, outcome, acquired, stopAt >>
    /\ UNCHANGED schedVars
    /\ UNCHANGED stepVars

\* _execute, line 140: Routine._currently_running = None
ClearRunning(c) ==
    /\ tail[c] = "clear_running"
    /\ currently_running' = None
    /\ tail' = [tail EXCEPT ![c] = "clear_stop"]
    /\ UNCHANGED << store, logs, now, execution_lock, pc, xpc, name, steps_config, steps,
                    stop_event, blocking, result, i, routine_model, log, runs, invoked,
                    returned, sawFalse, outcome, acquired, stopAt >>
    /\ UNCHANGED schedVars
    /\ UNCHANGED stepVars

\* _execute, line 141, and the return of a blocking start, line 97. The
\* thread may clear the flag while a later run of the executor is under way.
ClearStop(c) ==
    /\ tail[c] = "clear_stop"
    /\ stop_event' = [stop_event EXCEPT ![c] = FALSE]
    /\ tail' = [tail EXCEPT ![c] = "none"]
    /\ IF pc[c] = "in_execute" /\ xpc[c] = "none"
       THEN /\ pc' = [pc EXCEPT ![c] = AfterStart(c)]
            /\ result' = [result EXCEPT ![c] = "True"]
       ELSE UNCHANGED << pc, result >>
    /\ IF xpc[c] = "none"
       THEN /\ stopAt' = [stopAt EXCEPT ![c] = 0]
            /\ i' = [i EXCEPT ![c] = 0]
       ELSE UNCHANGED << stopAt, i >>
    /\ UNCHANGED << store, logs, now, execution_lock, currently_running, xpc, name,
                    steps_config, steps, blocking, routine_model, log, runs, invoked,
                    returned, sawFalse, outcome, acquired >>
    /\ UNCHANGED schedVars
    /\ UNCHANGED stepVars

\* ------------------------------------------------------- routine.py: stop
HasExecutor(c) ==
    IF c \in Defs THEN pc[c] \in {"start", "acquired", "in_execute"}
    ELSE pc[c] # "noobj"

\* Popen.terminate(), routine_steps.py 52: the process exits, unless it
\* ignores the signal
terminate(proc, ignores) == IF ignores THEN proc ELSE "dead"

\* Popen.wait(timeout=5), routine_steps.py 53-55: TimeoutExpired is raised
\* when the process has not exited within the grace period
TimeoutExpired(proc) == proc = "alive"

\* Popen.kill(), routine_steps.py 56: the process cannot ignore this signal
kill(proc) == "dead"

\* RoutineStep.stop without the handler of TimeoutExpired
stop_process_without_kill(proc, ignores) ==
    IF proc = "alive" THEN terminate(proc, ignores) ELSE proc
\* RoutineStep.stop, routine_steps.py 48-56: a live process is terminated,
\* and killed if it has not exited after the grace period
stop_process(proc, ignores) ==
    IF proc = "alive"
    THEN LET asked == terminate(proc, ignores)
         IN IF TimeoutExpired(asked) THEN kill(asked) ELSE asked
    ELSE proc

\* stop, lines 143-154: set the cancellation flag and stop every step
Stop(c) ==
    /\ HasExecutor(c)
    /\ ~stop_event[c] \/ process[c] = "alive"
    /\ stop_event' = [stop_event EXCEPT ![c] = TRUE]
    /\ process' \in { [process EXCEPT ![c] = stop_process(@, ignores)] : ignores \in BOOLEAN }
    /\ step_stop_event' = [k \in DOMAIN step_stop_event |->
                               IF k = c THEN 1..Len(steps[c]) ELSE step_stop_event[k]]
    /\ UNCHANGED direct
    /\ IF InBody(c) /\ Len(invoked[c]) >= 1
       THEN stopAt' = [stopAt EXCEPT ![c] = Len(invoked[c])]
       ELSE UNCHANGED stopAt
    /\ UNCHANGED << store, logs, now, execution_lock, currently_running, pc, xpc, tail, name,
                    steps_config, steps, blocking, result, i, routine_model, log, runs,
                    invoked, returned, sawFalse, outcome, acquired >>
    /\ UNCHANGED schedVars

\* ------------------------------------- scheduler.py: after start returned
\* _execute_routine, lines 218-221
FireUpdateLog(f) ==
    /\ pc[f] = "after_start"
    /\ logs' = close_log(f, IF result[f] = "True" THEN "completed" ELSE "failed",
                         logs[f][log[f]].error_message)
    /\ now' = [now EXCEPT ![f] = @ + 1]
    /\ pc' = [pc EXCEPT ![f] = "mark"]
    /\ UNCHANGED << store, execution_lock, currently_running, xpc, tail, name, steps_config,
                    steps, stop_event, blocking, result, i, routine_model, log, runs,
                    invoked, returned, sawFalse, outcome, acquired, stopAt >>
    /\ UNCHANGED schedVars
    /\ UNCHANGED stepVars

\* models.py, Routine.mark_as_run, lines 230-234, called at scheduler.py 224
mark_as_run(row, model, t) ==
    [row EXCEPT !.last_run = t, !.run_count = model.run_count + 1]

FireMarkAsRun(f) ==
    /\ pc[f] = "mark"
    /\ store' = [store EXCEPT ![f] = mark_as_run(@, routine_model[f], now[f])]
    /\ now' = [now EXCEPT ![f] = @ + 1]
    /\ pc' = [pc EXCEPT ![f] = "done"]
    /\ UNCHANGED << logs, execution_lock, currently_running, xpc, tail, name, steps_config,
                    steps, stop_event, blocking, result, i, routine_model, log, runs,
                    invoked, returned, sawFalse, outcome, acquired, stopAt >>
    /\ UNCHANGED schedVars
    /\ UNCHANGED stepVars

\* mark_as_run raises (the save of the row fails): the handler of
\* _execute_routine, lines 231-236, writes the log row again
FireMarkAsRunError(f) ==
    /\ pc[f] = "mark"
    /\ logs' = close_log(f, "failed", "DatabaseError")
    /\ now' = [now EXCEPT ![f] = @ + 1]
    /\ pc' = [pc EXCEPT ![f] = "done"]
    /\ UNCHANGED << store, execution_lock, currently_running, xpc, tail, name, steps_config,
                    steps, stop_event, blocking, result, i, routine_model, log, runs,
                    invoked, returned, sawFalse, outcome, acquired, stopAt >>
    /\ UNCHANGED schedVars
    /\ UNCHANGED stepVars

\* ------------------------------------------ scheduler.py: reload_schedules
\* the variables of the execution engine, apart from the definition store
runVars == << logs, now, execution_lock, currently_running, pc, xpc, tail, name,
              steps_config, steps, stop_event, blocking, result, i, routine_model,
              log, runs, invoked, returned, sawFalse, outcome, acquired, stopAt,
              process, step_stop_event, direct >>

\* Routine.Meta.ordering: the order in which a query returns the rows
RoutineOrder == << "d2", "d1" >>

\* reload_schedules, line 72: self._scheduler.remove_all_jobs()
ReloadRemoveAll ==
    /\ rpc = "idle"
    /\ jobs' = {}
    /\ rpc' = "query"
    /\ lastReload' = [settled |-> FALSE, before |-> jobs, successive |-> lastReload.settled,
                      store_error |-> FALSE, store_error_before |-> lastReload.store_error,
                      failed |-> {}, failed_before |-> lastReload.failed]
    /\ UNCHANGED << store, schedule, routines >>
    /\ UNCHANGED << lastOp, onceFired, scheduledSteps, together >>
    /\ UNCHANGED runVars

\* reload_schedules, lines 78-80: the enabled rows are read
ReloadQuery ==
    /\ rpc = "query"
    /\ LET ids == SelectSeq(RoutineOrder, LAMBDA d : store[d].enabled)
       IN routines' = [k \in 1..Len(ids) |-> [id |-> ids[k], row |-> schedule[ids[k]]]]
    /\ rpc' = "loop"
    /\ UNCHANGED << store, schedule, jobs, lastReload >>
    /\ UNCHANGED << lastOp, onceFired, scheduledSteps, together >>
    /\ UNCHANGED runVars

\* reload_schedules, lines 78-80 and 85-86: the read raises; the handler
\* logs the error and reload_schedules returns
ReloadStoreError ==
    /\ rpc = "query"
    /\ rpc' = "idle"
    /\ lastReload' = [lastReload EXCEPT !.settled = TRUE, !.store_error = TRUE]
    /\ UNCHANGED << store, schedule, jobs, routines >>
    /\ UNCHANGED << lastOp, onceFired, scheduledSteps, together >>
    /\ UNCHANGED runVars

\* _schedule_routine, lines 95-166: the job of a row replaces the job of the
\* same id; a row without a complete schedule gets no job
schedule_routine(js, routine) ==
    LET trigger == schedule_trigger(routine.row)
    IN IF trigger = << >> THEN js ELSE add_job(js, routine.id, trigger[1])

\* the steps a definition has in the store when its job is added
steps_at_add_job(routine) ==
    IF schedule_trigger(routine.row) = << >> THEN scheduledSteps
    ELSE [scheduledSteps EXCEPT ![routine.id] = store[routine.id].steps_json]

\* reload_schedules, lines 80-81: the next row is scheduled
ReloadSchedule ==
    /\ rpc = "loop"
    /\ routines # << >>
    /\ jobs' = schedule_routine(jobs, Head(routines))
    /\ scheduledSteps' = steps_at_add_job(Head(routines))
    /\ routines' = Tail(routines)
    /\ UNCHANGED << store, schedule, rpc, lastReload, lastOp, onceFired, together >>
    /\ UNCHANGED runVars

\* _schedule_routine, lines 168-169: building the trigger or adding the job
\* raises; the error is logged and the loop goes on with the next row
ReloadScheduleError ==
    /\ rpc = "loop"
    /\ routines # << >>
    /\ schedule_trigger(Head(routines).row) # << >>
    /\ lastReload' = [lastReload EXCEPT !.failed = @ \cup { Head(routines).id }]
    /\ routines' = Tail(routines)
    /\ UNCHANGED << store, schedule, jobs, rpc >>
    /\ UNCHANGED << lastOp, onceFired, scheduledSteps, together >>
    /\ UNCHANGED runVars

\* reload_schedules, lines 83-84: every row was handled, the call returns
ReloadReturn ==
    /\ rpc = "loop"
    /\ routines = << >>
    /\ rpc' = "idle"
    /\ lastReload' = [lastReload EXCEPT !.settled = TRUE]
    /\ UNCHANGED << store, schedule, jobs, routines >>
    /\ UNCHANGED << lastOp, onceFired, scheduledSteps, together >>
    /\ UNCHANGED runVars

\* the admin saves a definition with another enabled flag or schedule,
\* between two calls of reload_schedules
EditDefinition(d, e, sched) ==
    /\ rpc = "idle"
    /\ << e, sched >> # << store[d].enabled, schedule[d] >>
    /\ store' = [store EXCEPT ![d].enabled = e]
    /\ schedule' = [schedule EXCEPT ![d] = sched]
    /\ lastReload' = [lastReload EXCEPT !.settled = FALSE]
    /\ onceFired' = [onceFired EXCEPT ![d] = FALSE]
    /\ lastOp' = [lastOp EXCEPT !.op = "none"]
    /\ UNCHANGED << jobs, rpc, routines, scheduledSteps, together >>
    /\ UNCHANGED runVars

\* the scheduler after its construction, before any job was added, over
\* every content of the schedule fields
InitSched ==
    /\ InitWith({ [d \in Defs |-> Definition("Wake", ValidSteps(1), e[d])] :
                    e \in [Defs -> BOOLEAN] })
    /\ schedule \in [Defs -> ScheduleValues]
    /\ jobs = {}
    /\ rpc = "idle"
    /\ routines = << >>
    /\ NoHistory
    /\ together = << >>

\* reloads of the trigger set, next to edits of the definitions
NextSched ==
    \/ ReloadRemoveAll
    \/ ReloadQuery
    \/ ReloadStoreError
    \/ ReloadSchedule
    \/ ReloadScheduleError
    \/ ReloadReturn
    \/ \E d \in Defs, e \in BOOLEAN, sched \in ScheduleValues : EditDefinition(d, e, sched)

SpecSched == InitSched /\ [][NextSched]_vars

\* --------------------------------------- operations on a single definition
\* the history of an operation that is called now
Op(op, id, raised) ==
    [op |-> op, id |-> id, had |-> \E j \in jobs : j.id = id, raised |-> raised,
     bit |-> 1 - lastOp.bit]

\* a remove_job that empties the job store
remove_job_all(js, id) == [jobs |-> {}, error |-> ~ \E j \in js : j.id = id]
\* BackgroundScheduler.remove_job(job_id): the job of the id leaves the job
\* store; JobLookupError when the id has no job
remove_job(js, id) == [jobs |-> { j \in js : j.id # id }, error |-> ~ \E j \in js : j.id = id]

\* a pause_job that drops the job
pause_job_dropping(js, id) == remove_job(js, id)
\* BackgroundScheduler.pause_job(job_id): the job stays in the job store
\* without a next run time; JobLookupError when the id has no job
pause_job(js, id) ==
    [jobs |-> { IF j.id = id THEN [j EXCEPT !.paused = TRUE] ELSE j : j \in js },
     error |-> ~ \E j \in js : j.id = id]

\* BackgroundScheduler.resume_job(job_id): the job gets its next run time
\* again; JobLookupError when the id has no job
resume_job(js, id) ==
    [jobs |-> { IF j.id = id THEN [j EXCEPT !.paused = FALSE] ELSE j : j \in js },
     error |-> ~ \E j \in js : j.id = id]

\* except Exception, lines 268-269, 277-278 and 286-287: the error of the
\* scheduler is logged and the operation returns
reraised(error) == FALSE

\* _schedule_routine(routine), lines 95-166, called for the row of d
ScheduleOne(d) ==
    /\ LET routine == [id |-> d, row |-> schedule[d]]
       IN /\ jobs' = schedule_routine(jobs, routine)
          /\ scheduledSteps' = steps_at_add_job(routine)
    /\ lastOp' = Op("schedule", d, FALSE)
    /\ UNCHANGED << store, schedule, rpc, routines, lastReload, onceFired, together >>
    /\ UNCHANGED runVars

\* _schedule_routine(routine), lines 168-169: building the trigger or adding
\* the job raises; the error is logged and the job store stays as it was
ScheduleOneError(d) ==
    /\ schedule_trigger(schedule[d]) # << >>
    /\ lastOp' = Op("schedule", d, FALSE)
    /\ UNCHANGED << store, schedule, jobs, rpc, routines, lastReload, onceFired, scheduledSteps,
                    together >>
    /\ UNCHANGED runVars

\* remove_routine, lines 280-287
RemoveRoutine(d) ==
    /\ LET removed == remove_job(jobs, d)
       IN /\ jobs' = removed.jobs
          /\ lastOp' = Op("remove", d, reraised(removed.error))
    /\ UNCHANGED << store, schedule, rpc, routines, lastReload, onceFired, scheduledSteps,
                    together >>
    /\ UNCHANGED runVars

\* pause_routine, lines 262-269
PauseRoutine(d) ==
    /\ LET paused == pause_job(jobs, d)
       IN /\ jobs' = paused.jobs
          /\ lastOp' = Op("pause", d, reraised(paused.error))
    /\ UNCHANGED << store, schedule, rpc, routines, lastReload, onceFired, scheduledSteps,
                    together >>
    /\ UNCHANGED runVars

\* resume_routine, lines 271-278
ResumeRoutine(d) ==
    /\ LET resumed == resume_job(jobs, d)
       IN /\ jobs' = resumed.jobs
          /\ lastOp' = Op("resume", d, reraised(resumed.error))
    /\ UNCHANGED << store, schedule, rpc, routines, lastReload, onceFired, scheduledSteps,
                    together >>
    /\ UNCHANGED runVars

\* the steps of a definition are saved with another content
EditSteps(d, s) ==
    /\ s # store[d].steps_json
    /\ store' = [store EXCEPT ![d].steps_json = s]
    /\ onceFired' = [onceFired EXCEPT ![d] = FALSE]
    /\ UNCHANGED << schedule, jobs, rpc, routines, lastReload, lastOp, scheduledSteps,
                    together >>
    /\ UNCHANGED runVars

\* the job of a date trigger that was added after its run date is found
\* missed by the scheduler and leaves the job store without a firing
Misfire(d) ==
    /\ onceFired[d]
    /\ \E j \in jobs :
          /\ j.id = d
          /\ j.trigger.kind = "date"
          /\ ~j.paused
          /\ jobs' = jobs \ { j }
    /\ UNCHANGED << store, schedule, rpc, routines, lastReload, lastOp, onceFired,
                    scheduledSteps, together >>
    /\ UNCHANGED runVars

\* the operations on single definitions, next to edits of the definitions
NextOps ==
    \/ \E d \in Defs : ScheduleOne(d)
    \/ \E d \in Defs : ScheduleOneError(d)
    \/ \E d \in Defs : RemoveRoutine(d)
    \/ \E d \in Defs : PauseRoutine(d)
    \/ \E d \in Defs : ResumeRoutine(d)
    \/ \E d \in Defs, e \in BOOLEAN, sched \in ScheduleValues : EditDefinition(d, e, sched)

SpecOps == InitSched /\ [][NextOps]_vars

\* ------------------------------------------------------------------ Next
\* steps of the scheduler's firings
FiringStep ==
    \/ \E f \in Defs : FireFetch(f)
    \/ \E f \in Defs : FireBuild(f)
    \/ \E f \in Defs : FireUpdateLog(f)
    \/ \E f \in Defs : FireMarkAsRun(f)
    \/ \E f \in Defs : FireMarkAsRunError(f)
    \/ \E f \in Defs : FireEnd(f)

\* steps of a blocking run of an executor, and stop()
RunStep ==
    \/ \E c \in Callers : Start(c)
    \/ \E c \in Callers : SetRunning(c)
    \/ \E c \in Callers : CheckStop(c)
    \/ \E c \in Callers : Invoke(c)
    \/ \E c \in Callers, r \in {"ok", "fail", "raise"} : StepReturn(c, r)
    \/ \E c \in Callers : ReleaseLock(c)
    \/ \E c \in Callers : ClearRunning(c)
    \/ \E c \in Callers : ClearStop(c)
    \/ \E c \in Callers : Stop(c)

\* steps of a manual caller, apart from the construction of its executor
ManualStep ==
    \/ \E m \in Manuals, b \in BOOLEAN : Call(m, b)
    \/ \E m \in Manuals : Spawn(m)
    \/ \E m \in Manuals : SpawnError(m)
    \/ \E m \in Manuals : Dispose(m)

\* the whole engine: firings next to a manual caller of a one-step routine
Next ==
    \/ FiringStep
    \/ RunStep
    \/ ManualStep
    \/ \E m \in Manuals : Construct(m, "Wake", ValidSteps(1))

Spec == Init /\ [][Next]_vars

\* the firings alone, over every definition
NextFire == FiringStep \/ RunStep

SpecFire == InitFire /\ [][NextFire]_vars

\* the firings alone, where every thread of a firing keeps running: the
\* scheduler's worker thread executes _execute_routine to its end, every
\* execute() returns, and a write of the store returns or raises
FairFiring(f) ==
    /\ WF_vars(FireBuild(f))
    /\ WF_vars(Start(f))
    /\ WF_vars(SetRunning(f))
    /\ WF_vars(CheckStop(f))
    /\ WF_vars(Invoke(f))
    /\ WF_vars(\E r \in {"ok", "fail", "raise"} : StepReturn(f, r))
    /\ WF_vars(ReleaseLock(f))
    /\ WF_vars(ClearRunning(f))
    /\ WF_vars(ClearStop(f))
    /\ WF_vars(FireUpdateLog(f))
    /\ WF_vars(FireMarkAsRun(f) \/ FireMarkAsRunError(f))
    /\ WF_vars(FireEnd(f))

SpecLive == InitLive /\ [][NextFire]_vars /\ \A f \in Defs : FairFiring(f)

\* a manual caller alone, over every executor configuration
NextExec ==
    \/ RunStep
    \/ ManualStep
    \/ \E m \in Manuals, nm \in Names, cfg \in StepLists : Construct(m, nm, cfg)

SpecExec == Init /\ [][NextExec]_vars

\* one enabled one-step definition d1 with its job, one-time or recurring,
\* next to a disabled definition d2 without job
InitTrig ==
    /\ InitWith({ [d \in Defs |-> IF d = "d1" THEN Definition("Wake", ValidSteps(1), TRUE)
                                ELSE Definition("Nap", ValidSteps(1), FALSE)] })
    /\ \E sched \in { Once(5), Recurring(<< 7, 0 >>, {"monday", "wednesday", "friday"}) } :
          /\ schedule = [d \in Defs |-> IF d = "d1" THEN sched
                                     ELSE Recurring(<< 0, 0 >>, {"sunday"})]
          /\ jobs = schedule_routine({}, [id |-> "d1", row |-> sched])
    /\ rpc = "idle"
    /\ routines = << >>
    /\ NoHistory
    /\ together = << >>

\* firings of the jobs, next to pauses and edits of the steps
NextTrig ==
    \/ FiringStep
    \/ RunStep
    \/ \E d \in Defs : PauseRoutine(d)
    \/ \E d \in Defs : ResumeRoutine(d)
    \/ \E d \in Defs, s \in { ValidSteps(1), ValidSteps(2) } : EditSteps(d, s)

SpecTrig == InitTrig /\ [][NextTrig]_vars

\* the firings, with the external processes of the steps and callers of
\* stop()
NextStop ==
    \/ FiringStep
    \/ RunStep
    \/ \E c \in Callers : Popen(c)

SpecStop == Init /\ [][NextStop]_vars

\* ------------------------------------------- a step executed on its own
\* every variable but the step object that is executed directly
routineVars == << store, logs, now, execution_lock, currently_running, pc, xpc, tail, name,
                  steps_config, steps, stop_event, blocking, result, i, routine_model,
                  log, runs, invoked, returned, sawFalse, outcome, acquired, stopAt,
                  process, step_stop_event >>

\* create_routine_step(step_type, config), routine_steps.py 550-566: a step
\* object of a registered variant
DirectConstruct(cfg) ==
    /\ direct = NoStep
    /\ cfg.type = "alarm" => (cfg.exists => cfg.audio_file = "a.wav")
    /\ create_routine_step(cfg.type) # None
    /\ direct' = StepObject(cfg)
    /\ UNCHANGED routineVars
    /\ UNCHANGED schedVars

\* validate_config() is called on the step object
DirectValidate ==
    /\ direct.at = "new"
    /\ direct.valid = << >>
    /\ direct' = [direct EXCEPT !.valid = validate_config_of(direct.config)]
    /\ UNCHANGED routineVars
    /\ UNCHANGED schedVars

\* execute() is called: the variant tests its config map
DirectExecute ==
    /\ direct.at = "new"
    /\ direct' = IF returns_early(direct.config)
                 THEN [direct EXCEPT !.at = "done", !.result = "False"]
                 ELSE [direct EXCEPT !.at = "acting"]
    /\ UNCHANGED routineVars
    /\ UNCHANGED schedVars

\* execute() does the next thing the variant does
DirectAct ==
    /\ direct.at = "acting"
    /\ Len(direct.done) < Len(actions_of(direct.config))
    /\ direct' = [direct EXCEPT !.done = Append(@, actions_of(direct.config)[Len(@) + 1])]
    /\ UNCHANGED routineVars
    /\ UNCHANGED schedVars

\* execute() has done everything and returns True
DirectReturn ==
    /\ direct.at = "acting"
    /\ Len(direct.done) = Len(actions_of(direct.config))
    /\ direct' = [direct EXCEPT !.at = "done", !.result = "True"]
    /\ UNCHANGED routineVars
    /\ UNCHANGED schedVars

\* the next thing raises, or finds nothing to go on with: execute() returns
\* False
DirectFail ==
    /\ direct.at = "acting"
    /\ Len(direct.done) < Len(actions_of(direct.config))
    /\ direct' = [direct EXCEPT !.at = "done", !.result = "False"]
    /\ UNCHANGED routineVars
    /\ UNCHANGED schedVars

\* a step object is built, validated or not, and executed
NextStep ==
    \/ \E cfg \in DirectConfigs : DirectConstruct(cfg)
    \/ DirectValidate
    \/ DirectExecute
    \/ DirectAct
    \/ DirectReturn
    \/ DirectFail

SpecStep == Init /\ [][NextStep]_vars

\* two enabled definitions with a recurring trigger at the same time of the
\* same days; firings that begin together are recorded
InitPair ==
    /\ CronScheduled
    /\ InitWith({ [d \in Defs |-> Definition("Wake", ValidSteps(1), TRUE)] })
    /\ together = [d \in Defs |-> FALSE]

\* steps of a blocking run that nobody stops
BodyStep ==
    \/ \E c \in Callers : Start(c)
    \/ \E c \in Callers : SetRunning(c)
    \/ \E c \in Callers : CheckStop(c)
    \/ \E c \in Callers : Invoke(c)
    \/ \E c \in Callers, r \in {"ok", "fail", "raise"} : StepReturn(c, r)
    \/ \E c \in Callers : ReleaseLock(c)
    \/ \E c \in Callers : ClearRunning(c)
    \/ \E c \in Callers : ClearStop(c)

\* the firings of both definitions, without a caller of stop()
NextPair == FiringStep \/ BodyStep

SpecPair == InitPair /\ [][NextPair]_vars

\* the scheduler without jobs; d1 is recurring with any of the subsets of
\* the weekday flags
InitCron ==
    /\ InitWith({ [d \in Defs |-> Definition("Wake", ValidSteps(1), TRUE)] })
    /\ schedule \in { [d \in Defs |-> IF d = "d1" THEN Recurring(t, flags)
                                    ELSE Recurring(<< 0, 0 >>, {"sunday"})] :
                        t \in { << 7, 0 >>, << 23, 59 >> },
                        flags \in SUBSET { Weekday[k] : k \in 1..7 } }
    /\ jobs = {}
    /\ rpc = "idle"
    /\ routines = << >>
    /\ NoHistory
    /\ together = << >>

\* the definitions are scheduled and their jobs removed
NextCron ==
    \/ \E d \in Defs : ScheduleOne(d)
    \/ \E d \in Defs : ScheduleOneError(d)
    \/ \E d \in Defs : RemoveRoutine(d)

SpecCron == InitCron /\ [][NextCron]_vars

\* firings of the jobs, next to reloads of the trigger set
NextOnce ==
    \/ FiringStep
    \/ RunStep
    \/ ReloadRemoveAll
    \/ ReloadQuery
    \/ ReloadStoreError
    \/ ReloadSchedule
    \/ ReloadScheduleError
    \/ ReloadReturn
    \/ \E d \in Defs : Misfire(d)

SpecOnce == InitTrig /\ [][NextOnce]_vars

\* ================================================================ claims
InStepLoop(c) == xpc[c] \in {"check", "invoke", "executing"}
Refused(c) == pc[c] = AfterStart(c) /\ result[c] = "False" /\ ~acquired[c]
ReturnedFromBlockingStart(c) ==
    /\ blocking[c] /\ result[c] = "True"
    /\ pc[c] \in (IF c \in Defs THEN {"after_start", "mark", "done"} ELSE {"returned"})
Errors(c) == validate_errors(name[c], steps_config[c], steps[c])
FirstN(n) == [k \in 1..n |-> k]

\* C1: at most one executor is inside the step loop of _execute at any time,
\* whatever the interleaving of firings and manual start() calls.
C1_MutualExclusion ==
    \A c, d \in Callers : (InStepLoop(c) /\ InStepLoop(d)) => c = d

C1_Witness ==
    \E c, d \in Callers : c # d /\ xpc[c] = "executing" /\ pc[d] = "start"

\* C2: a start() issued while another run holds the lock returns False in
\* that very step: it does not get the lock, starts no run of its executor,
\* invokes no step, and is left at the return of start (no wait, no retry).
C2_RefusedStart ==
    [][\A c \in Callers :
         (pc[c] = "start" /\ pc'[c] # "start" /\ execution_lock # Free)
         => /\ pc'[c] = AfterStart(c)
            /\ result'[c] = "False"
            /\ execution_lock' = execution_lock
            /\ xpc'[c] = xpc[c]
            /\ invoked' = invoked]_vars

C2_Witness ==
    \E c \in Callers : Refused(c) /\ execution_lock \notin {Free, c}

\* C3: once start(blocking=True) has returned True, the lock is no longer
\* held by that run, whether the loop completed, was stopped, or ended on
\* an exception.
C3_LockReleased ==
    \A c \in Callers : ReturnedFromBlockingStart(c) => execution_lock # c

C3_Witness ==
    \E c \in Callers :
        ReturnedFromBlockingStart(c) /\ outcome[c] = "error" /\ execution_lock = Free

\* C4: in a run the steps are invoked in list order, each at most once, and
\* step k+1 is invoked only after step k has returned.
C4_SequentialOrder ==
    \A c \in Callers :
        /\ invoked[c] = FirstN(Len(invoked[c]))
        /\ returned[c] = FirstN(Len(returned[c]))
        /\ Len(returned[c]) <= Len(invoked[c])
        /\ Len(invoked[c]) <= Len(returned[c]) + 1
        /\ Len(invoked[c]) <= Len(steps[c])

C4_Witness ==
    \E c \in Callers : Len(invoked[c]) >= 2 /\ Len(returned[c]) >= 2

\* C5: a stop() called on a running executor after step k's execute() began
\* and before step k+1's execute() is invoked keeps step k+1 and every later
\* step from being invoked in that run.
C5_StopBeforeNextStep ==
    \A c \in Callers : stopAt[c] > 0 => Len(invoked[c]) <= stopAt[c]

\* C6: the record of a firing whose run was truncated by stop() ends with
\* status stopped.
C6_StoppedRecorded ==
    \A f \in Defs :
        (pc[f] = "done" /\ outcome[f] = "stopped" /\ Len(invoked[f]) < Len(steps[f]))
        => logs[f][log[f]].status = "stopped"

\* C7: a run whose loop was neither stopped nor ended by an exception has
\* invoked every built step exactly once, in order, whatever the steps
\* returned.
C7_EveryStepRuns ==
    \A c \in Callers :
        outcome[c] = "completed" =>
            /\ invoked[c] = FirstN(Len(steps[c]))
            /\ Len(returned[c]) = Len(steps[c])

C7_Witness ==
    \E c \in Callers :
        /\ outcome[c] = "completed"
        /\ Len(steps[c]) >= 2
        /\ sawFalse[c]
        /\ Len(invoked[c]) = Len(steps[c])

\* C8: a firing whose executor fails validate() ends at once: no step is
\* invoked, the lock is not acquired, the record is closed as failed with
\* the joined error messages, and last_run / run_count keep their values.
C8_ValidationAborts ==
    \A f \in Defs :
        (log[f] > 0 /\ pc[f] \notin {"idle", "build"} /\ Errors(f) # <<>>)
        => /\ pc[f] = "done"
           /\ invoked[f] = <<>>
           /\ ~acquired[f]
           /\ execution_lock # f
           /\ logs[f][log[f]].status = "failed"
           /\ logs[f][log[f]].error_message = join(Errors(f))
           /\ logs[f][log[f]].completed_at # 0
           /\ store[f].run_count = routine_model[f].run_count
           /\ store[f].last_run = routine_model[f].last_run

C8_Witness ==
    \E f \in Defs :
        /\ pc[f] = "done" /\ log[f] > 0
        /\ Len(Errors(f)) >= 2
        /\ logs[f][log[f]].status = "failed"

\* C9: start() on an executor whose validate() fails invokes no step.
C9_InvalidNeverExecutes ==
    \A c \in Callers : Errors(c) # <<>> => invoked[c] = <<>>

\* C10: a record that has left status started is never written again.
C10_OneTerminalWrite ==
    [][\A d \in Defs : \A k \in DOMAIN logs[d] :
         logs[d][k].status # "started" => logs'[d][k] = logs[d][k]]_vars

\* C11: a firing whose start() did not get the lock has opened no record:
\* the firing holds no row of RoutineLog, so the number of rows is what it
\* was before the firing and nothing is recorded as a failed run.
C11_NoRecordWhenRefused ==
    \A f \in Defs :
        (pc[f] \in {"after_start", "mark", "done"} /\ result[f] = "False" /\ ~acquired[f])
        => log[f] = 0

\* C12: last_run and run_count of a definition change only in a firing whose
\* record has status completed, and run_count then grows by exactly 1.
C12_StatsOnlyOnCompleted ==
    [][\A d \in Defs :
         (store'[d].last_run # store[d].last_run \/ store'[d].run_count # store[d].run_count)
         => /\ log[d] > 0
            /\ logs[d][log[d]].status = "completed"
            /\ store'[d].run_count = store[d].run_count + 1]_vars

\* C13: every record opened by a firing eventually leaves status started,
\* given that the firing's thread keeps running, every execute() returns and
\* the store accepts the write.
C13_RecordsTerminate ==
    \A d \in Defs : \A k \in 1..MaxFirings :
        (Len(logs[d]) >= k /\ logs[d][k].status = "started")
        ~> (Len(logs[d]) >= k /\ logs[d][k].status \in {"completed", "failed", "stopped"})

C13_Witness ==
    \E d \in Defs :
        /\ Len(logs[d]) >= 1
        /\ logs[d][1].status = "completed"
        /\ Len(returned[d]) >= 1
        /\ pc[d] = "done"

C15_EmptyIsInvalid ==
    \A c \in Callers :
        (HasExecutor(c) /\ (steps[c] = <<>> \/ name[c] = "")) => ~validate(c)[1]

\* the message validate() is to give for the k-th configuration of the
\* definition's step list, if that step fails its validate_config
RECURSIVE ExpectedStepErrors(_, _)
ExpectedStepErrors(cfg, k) ==
    IF k > Len(cfg) THEN <<>>
    ELSE (IF cfg[k].type \in DOMAIN ROUTINE_STEP_REGISTRY /\ ~cfg[k].config_ok
          THEN << "Step " \o ToString(k) \o " (" \o ROUTINE_STEP_REGISTRY[cfg[k].type]
                  \o "): audio_file is required" >>
          ELSE <<>>)
         \o ExpectedStepErrors(cfg, k + 1)

\* C16: validate() returns true exactly when its error list is empty, and
\* after the messages about the name and the empty list the error list holds
\* one message per failing step, in step order, each naming the step's class
\* and its 1-based position in the definition's step list.
C16_ErrorsNameDefinitionPosition ==
    \A c \in Callers :
        HasExecutor(c) =>
            /\ validate(c)[1] = (validate(c)[2] = <<>>)
            /\ validate(c)[2] =
                   (IF name[c] = "" THEN << "Routine name is required" >> ELSE <<>>)
                   \o (IF steps_config[c] = <<>>
                       THEN << "Routine must have at least one step" >> ELSE <<>>)
                   \o ExpectedStepErrors(steps_config[c], 1)

Registered(cfg) == cfg.type \in DOMAIN ROUTINE_STEP_REGISTRY
StepOf(cfg) == [cls |-> ROUTINE_STEP_REGISTRY[cfg.type], config_ok |-> cfg.config_ok]

\* C17: the built step list is the sub-sequence of the configurations whose
\* tag is registered, in their order: an unknown tag yields no step and does
\* not keep the configurations after it from being built.
C17_BuiltIsRegisteredSubsequence ==
    \A c \in Callers :
        HasExecutor(c) =>
            LET sel == SelectSeq(steps_config[c], Registered)
            IN steps[c] = [k \in 1..Len(sel) |-> StepOf(sel[k])]

C17_Witness ==
    \E c \in Callers :
        /\ HasExecutor(c)
        /\ Len(steps_config[c]) >= 2
        /\ ~Registered(steps_config[c][1])
        /\ Len(steps[c]) = Len(steps_config[c]) - 1

\* a schedule that satisfies the schedule invariant
WellFormed(sched) ==
    \/ sched.schedule_type = "once" /\ sched.scheduled_datetime # NullDatetime
    \/ sched.schedule_type = "recurring" /\ sched.time_of_day # NullTime /\ sched.days # {}

\* the definitions reload_schedules is to give a trigger
ToSchedule == { d \in Defs : store[d].enabled /\ WellFormed(schedule[d]) }

\* the trigger is the one of the schedule: a date trigger at the timestamp,
\* or a cron trigger at the hour and minute of the time of day
TriggerOf(trigger, sched) ==
    IF sched.schedule_type = "once"
    THEN trigger.kind = "date" /\ trigger.run_date = sched.scheduled_datetime
    ELSE /\ trigger.kind = "cron"
         /\ trigger.hour = sched.time_of_day[1]
         /\ trigger.minute = sched.time_of_day[2]
         /\ trigger.second = 0

\* C18: once reload_schedules has returned, every job belongs to an enabled
\* definition with a well-formed schedule, and every such definition whose
\* scheduling did not raise has exactly one job, with the trigger of its
\* schedule.
C18_ReloadExact ==
    lastReload.settled =>
        /\ \A j \in jobs : j.id \in ToSchedule
        /\ \A d \in ToSchedule \ lastReload.failed :
               /\ Cardinality({ j \in jobs : j.id = d }) = 1
               /\ \A j \in jobs : j.id = d => TriggerOf(j.trigger, schedule[d])

\* C19: when the read of the definitions raised during reload_schedules,
\* the jobs that existed before the call exist after it.
C19_StoreErrorKeepsJobs ==
    (lastReload.settled /\ lastReload.store_error) => lastReload.before \subseteq jobs

\* C20: a reload_schedules call that follows another one, with no edit of
\* the definitions in between and no scheduling raising in either, leaves the
\* jobs the first call left.
C20_ReloadIdempotent ==
    (/\ lastReload.settled
     /\ lastReload.successive
     /\ lastReload.failed = {}
     /\ lastReload.failed_before = {})
    => jobs = lastReload.before

\* C21: while reload_schedules is running, every enabled definition with a
\* well-formed schedule that had a job when the call began has a job: no
\* firing or observer finds a trigger set in which it is missing.
C21_ReloadAtomic ==
    rpc # "idle" =>
        \A d \in ToSchedule : (\E j \in lastReload.before : j.id = d) => \E j \in jobs : j.id = d

\* C22: once _schedule_routine was called for a definition whose schedule is
\* not well-formed, the definition has no job, whether or not it had one
\* before the call.
C22_MalformedHasNoJob ==
    (lastOp.op = "schedule" /\ ~WellFormed(schedule[lastOp.id]))
    => ~ \E j \in jobs : j.id = lastOp.id

\* C23: scheduling a definition or removing the job of an id leaves the job
\* of every other id as it was (present or absent, trigger, paused), and
\* removing an id without a job changes no job and raises no error.
C23_OthersUntouched ==
    [][(lastOp' # lastOp /\ lastOp'.op \in {"schedule", "remove"}) =>
          /\ \A j \in jobs : j.id # lastOp'.id => j \in jobs'
          /\ \A j \in jobs' : j.id # lastOp'.id => j \in jobs
          /\ (lastOp'.op = "remove" /\ ~ \E j \in jobs : j.id = lastOp'.id)
               => (jobs' = jobs /\ ~lastOp'.raised)]_vars

\* a job was removed while the other definition has a paused job
C23_Witness ==
    /\ lastOp.op = "remove"
    /\ ~ \E j \in jobs : j.id = lastOp.id
    /\ \E j \in jobs : j.id # lastOp.id /\ j.paused

\* the ids and triggers of a job store, without the paused state
Triggers(js) == { [id |-> j.id, trigger |-> j.trigger] : j \in js }

\* C24: pause_routine and resume_routine raise no error and keep every id
\* and trigger of the job store; the job of the id is paused after a pause and
\* not paused after a resume, every other job is as it was, and an id without
\* a job changes nothing. A firing begins only for a job that is not paused.
C24_PauseResume ==
    [][/\ (lastOp' # lastOp /\ lastOp'.op \in {"pause", "resume"}) =>
             /\ ~lastOp'.raised
             /\ Triggers(jobs') = Triggers(jobs)
             /\ \A j \in jobs' : IF j.id = lastOp'.id THEN j.paused = (lastOp'.op = "pause")
                                 ELSE j \in jobs
             /\ (~ \E j \in jobs : j.id = lastOp'.id) => jobs' = jobs
       /\ \A f \in Defs : (pc[f] = "idle" /\ pc'[f] # "idle")
                            => \E j \in jobs : j.id = f /\ ~j.paused]_vars

\* a job was resumed and its firing has begun
C24_Witness ==
    /\ lastOp.op = "resume"
    /\ \E j \in jobs : j.id = lastOp.id /\ ~j.paused
    /\ pc[lastOp.id] = "build"

\* C25: once the one-time trigger of a definition has fired, and while the
\* definition is not edited, the definition has no job, whatever scheduler
\* operations follow.
C25_OneTimeGone ==
    \A d \in Defs : onceFired[d] => ~ \E j \in jobs : j.id = d

\* C27: a firing that finds its definition missing or disabled ends at once:
\* no log row, no change of the lock, of the running routine, of the store or
\* of the steps invoked, from its begin to its end.
C27_SkippedSilently ==
    [][\A f \in Defs :
          (\/ pc[f] = "idle" /\ pc'[f] # "idle" /\ ~store[f].enabled
           \/ pc[f] = "done" /\ pc'[f] # "done" /\ log[f] = 0)
          => /\ pc'[f] \in {"done", "idle"}
             /\ log'[f] = 0
             /\ UNCHANGED << logs, runs, store, execution_lock, currently_running, invoked,
                             returned, xpc >>]_vars

\* the firing of a disabled definition has ended without a log row
C27_Witness ==
    \E f \in Defs : pc[f] = "done" /\ log[f] = 0 /\ ~store[f].enabled /\ logs[f] = << >>

\* C28: the row of a firing is the one in the store when the firing begins,
\* and the executor is built from the steps of that row.
C28_StepsOfFiring ==
    [][\A f \in Defs :
          /\ (pc[f] = "idle" /\ pc'[f] = "build")
                => routine_model'[f].steps_json = store[f].steps_json
          /\ (pc[f] = "build" /\ pc'[f] # "build")
                => /\ steps_config'[f] = routine_model[f].steps_json
                   /\ steps'[f] = build_steps(routine_model[f].steps_json)]_vars

\* an executor was built from steps that were saved after the job was added
C28_Witness ==
    \E f \in Defs :
        /\ pc[f] = "start"
        /\ steps_config[f] = store[f].steps_json
        /\ steps_config[f] # scheduledSteps[f]

\* C26: the cron trigger of a job fires on exactly the weekdays whose flag
\* is set in the definition, at its hour and minute and second 0, for every
\* subset of the weekday flags.
C26_CronDays ==
    \A j \in jobs :
        /\ TriggerOf(j.trigger, schedule[j.id])
        /\ j.trigger.kind = "cron" => fire_days(j.trigger) = schedule[j.id].days

\* a job for the definition with the flags of tuesday, thursday and the weekend
C26_Witness ==
    \E j \in jobs :
        /\ j.id = "d1"
        /\ j.trigger.kind = "cron"
        /\ schedule["d1"].days = {"tuesday", "thursday", "saturday", "sunday"}
        /\ j.trigger.hour = 23
        /\ j.trigger.minute = 59

\* the firing has called start() and start() has returned
StartReturned(f) == pc[f] \in {"after_start", "mark", "done"}

\* of two firings that began together and have come to their end, exactly
\* one got the lock and invoked its steps, and the other invoked no step
ExactlyOneBody ==
    \A f, g \in DOMAIN together :
        (f # g /\ together[f] /\ together[g] /\ pc[f] = "done" /\ pc[g] = "done")
        => /\ acquired[f] # acquired[g]
           /\ (invoked[f] = << >>) # (invoked[g] = << >>)

\* a firing calls start() once: it comes to the call from the build of its
\* executor only, the call returns or enters the run, and after the return
\* the firing goes on to its end; no step of a firing adds a job
OneAttempt ==
    \A f \in Defs :
        /\ (pc'[f] = "start" /\ pc[f] # "start") => pc[f] = "build"
        /\ (pc[f] = "start" /\ (result'[f] # result[f] \/ acquired'[f] # acquired[f]))
              => pc'[f] \in {"acquired", "after_start"}
        /\ StartReturned(f) => pc'[f] \in {"after_start", "mark", "done", "idle"}
        /\ jobs' \subseteq jobs

OneBodyAtATime ==
    /\ \A f \in Defs : (StartReturned(f) /\ ~acquired[f]) => invoked[f] = << >>
    /\ \A f, g \in Defs : (InBody(f) /\ InBody(g)) => f = g

C30_NoProcessAfterStop ==
    \A c \in Callers : stop_event[c] => process[c] # "alive"

\* C38: a step whose config map validate_config() rejects does nothing when
\* its execute() is called, and execute() returns False.
C38_RejectedDoesNothing ==
    (direct.at # "none" /\ ~validate_config_of(direct.config)[1])
    => /\ direct.valid # << >> => ~direct.valid[1]
       /\ direct.done = << >>
       /\ direct.at # "acting"
       /\ direct.at = "done" => direct.result = "False"

\* execute() has returned on an Alarm whose audio file does not exist
C38_Witness ==
    /\ direct.at = "done"
    /\ direct.valid = << FALSE, "Audio file not found: a.wav" >>
    /\ direct.config.type = "alarm"
    /\ direct.config.audio_file = "a.wav"
    /\ ~direct.config.exists
    /\ direct.result = "False"

\* ------------------------------------------------------------------ C33
\* get_currently_running(), routine.py 200-203: the class attribute as it is
get_currently_running == currently_running

\* C33: while a run that holds the global lock is in its body,
\* get_currently_running() returns the name of its routine, and while the
\* lock is free and no run is between its release of the lock and its reset
\* of the name, get_currently_running() returns None.
C33_RunningNamesHolder ==
    /\ \A c \in Callers :
          (execution_lock = c /\ InBody(c)) => get_currently_running = name[c]
    /\ (execution_lock = Free /\ \A c \in Callers : tail[c] # "clear_running")
          => get_currently_running = None

\* ------------------------------------------------------------------ C34
\* no run of the executor is in progress: start() is not being executed and
\* no thread of it is in _execute
NotRunning(c) ==
    /\ pc[c] \in {"idle", "returned"}
    /\ xpc[c] = "none"
    /\ tail[c] = "none"

\* stop, lines 143-154, called on an executor that is not running
StopNotRunning(c) ==
    /\ NotRunning(c)
    /\ Stop(c)

\* the executor of a manual caller, with the flags of its steps
InitIdle ==
    /\ AllScheduled
    /\ InitWithSteps({ [d \in Defs |-> IF d = "d1"
                                       THEN Definition("Wake", ValidSteps(MaxSteps), TRUE)
                                       ELSE Definition("Nap", ValidSteps(1), FALSE)] })

\* a manual caller that starts its executor again and again, and calls
\* stop() only between the runs
NextIdle ==
    \/ \E m \in Manuals : Construct(m, "Wake", ValidSteps(MaxSteps))
    \/ ManualStep
    \/ BodyStep
    \/ \E m \in Manuals : StopNotRunning(m)

SpecIdle == InitIdle /\ [][NextIdle]_vars

\* C34: with stop() called only while the executor is not running, a run
\* that acquired the lock and left its loop without an exception has
\* executed every step of the routine.
C34_StopWhileIdleHarmless ==
    \A c \in Callers :
        (acquired[c] /\ outcome[c] \in {"completed", "stopped"})
        => invoked[c] = [k \in 1..Len(steps[c]) |-> k]

\* ------------------------------------------------------------------ C35
\* a manual caller that starts its executor again and again, next to
\* callers of stop()
NextAgain ==
    \/ \E m \in Manuals : Construct(m, "Wake", ValidSteps(MaxSteps))
    \/ ManualStep
    \/ RunStep

SpecAgain == InitIdle /\ [][NextAgain]_vars

\* the last statement of a run of c, routine.py 141, is executed
RunEnds(c) == tail[c] = "clear_stop" /\ tail'[c] = "none"

\* C35: when a run of an executor ends, the flag of the routine and the flag
\* of each of its steps are clear.
C35_FlagsClearAfterRun ==
    [][\A c \in Callers :
          RunEnds(c) => (~stop_event'[c] /\ step_stop_event'[c] = {})]_vars

\* ------------------------------------------------------------------ C31
\* the firings with the external processes of the steps, callers of stop()
\* and the flags of the steps
SpecKill == InitIdle /\ [][NextStop]_vars

\* a call of stop() on the executor of c has acted
StopStep(c) ==
    \/ ~stop_event[c] /\ stop_event'[c]
    \/ process[c] = "alive" /\ process'[c] = "dead"

FairThread(m) ==
    /\ WF_vars(CheckStop(m))
    /\ WF_vars(Invoke(m))
    /\ WF_vars(\E r \in {"ok", "fail", "raise"} : StepReturn(m, r))
    /\ WF_vars(ReleaseLock(m))
    /\ WF_vars(ClearRunning(m))
    /\ WF_vars(ClearStop(m))

\* a manual caller that starts its executor again and again, blocking or
\* not, next to callers of stop(); its threads keep running
SpecThread == Init /\ [][NextAgain]_vars /\ \A m \in Manuals : FairThread(m)

\* start(blocking=False) returns True: the lock is held and no step has run
ReturnsAtOnce(c) ==
    (pc[c] = "spawn" /\ pc'[c] # "spawn" /\ result'[c] = "True")
    => (execution_lock' = c /\ invoked'[c] = << >> /\ InBody(c)')

\* the lock leaves a non-blocking run only when its thread has left the loop
\* of _execute, or when the thread could not be started
HeldUntilFinished(c) ==
    (~blocking[c] /\ execution_lock = c /\ execution_lock' # c)
    => \/ xpc[c] = "release" /\ execution_lock' = Free
       \/ pc[c] = "spawn" /\ result'[c] = "False"

\* C32: start(blocking=False) returns True before any step has run, the
\* lock stays with the run until its thread has left the loop, and then the
\* lock becomes free.
C32_BackgroundRunHoldsLock ==
    /\ [][\A c \in Callers : ReturnsAtOnce(c) /\ HeldUntilFinished(c)]_vars
    /\ \A m \in Manuals :
          (~blocking[m] /\ result[m] = "True" /\ execution_lock = m)
          ~> (execution_lock = Free)

\* a non-blocking start has returned True and its run has executed every
\* step and released the lock
C32_Witness ==
    \E m \in Manuals :
        /\ ~blocking[m]
        /\ pc[m] = "returned"
        /\ result[m] = "True"
        /\ outcome[m] = "completed"
        /\ Len(invoked[m]) = Len(steps[m])
        /\ Len(steps[m]) >= 1
        /\ tail[m] = "clear_running"
        /\ execution_lock = Free

\* ------------------------------------------------------------------ C36
\* an enabled definition d1 with a one-time or a recurring schedule and
\* its job, next to a disabled definition d2 whose schedule has no time of day
InitJobs ==
    /\ InitWith({ [d \in Defs |-> Definition("Wake", ValidSteps(1), d = "d1")] })
    /\ \E sched \in { Once(5), Recurring(<< 7, 0 >>, {"monday", "wednesday", "friday"}) } :
          /\ schedule = [d \in Defs |-> IF d = "d1" THEN sched
                                     ELSE Recurring(NullTime, {"monday"})]
          /\ jobs = schedule_routine({}, [id |-> "d1", row |-> sched])
    /\ rpc = "idle"
    /\ routines = << >>
    /\ NoHistory
    /\ together = << >>

\* the schedules an edit gives the definition d1
EditedSchedules == { Once(5), Recurring(<< 0, 0 >>, {"sunday"}) }

\* reloads of the trigger set and operations on single definitions, in any
\* order and interleaving, next to edits of the definitions
NextJobs ==
    \/ ReloadRemoveAll
    \/ ReloadQuery
    \/ ReloadStoreError
    \/ ReloadSchedule
    \/ ReloadScheduleError
    \/ ReloadReturn
    \/ \E d \in Defs : ScheduleOne(d)
    \/ \E d \in Defs : ScheduleOneError(d)
    \/ \E d \in Defs : RemoveRoutine(d)
    \/ \E d \in Defs : PauseRoutine(d)
    \/ \E d \in Defs : ResumeRoutine(d)
    \/ \E sched \in EditedSchedules : EditDefinition("d1", TRUE, sched)

SpecJobs == InitJobs /\ [][NextJobs]_vars

\* C36: the job store holds at most one job for each definition id.
C36_OneJobPerId ==
    \A j1 \in jobs : \A j2 \in jobs : j1.id = j2.id => j1 = j2

\* a definition that had a job was scheduled with another schedule: its job
\* is the one of the new schedule
C36_Witness ==
    /\ lastOp.op = "schedule"
    /\ lastOp.had
    /\ schedule[lastOp.id] = Recurring(<< 0, 0 >>, {"sunday"})
    /\ \E j \in jobs : j.id = lastOp.id /\ j.trigger = CronTrigger("sun", 0, 0, 0)

\* ------------------------------------------------------------------ C37
\* _schedule_routine was called for an id whose job is paused: the job is
\* still paused afterwards
ScheduleKeepsPaused ==
    (lastOp' # lastOp /\ lastOp'.op = "schedule")
    => \A j \in jobs : (j.id = lastOp'.id /\ j.paused)
                       => \A k \in jobs' : k.id = j.id => k.paused

\* the last operation on a single definition was a pause_routine that found
\* a job, so that no resume_routine or remove_routine was called since: the
\* job of the id, if there is one, is paused
PausedSinceLastOp ==
    (lastOp.op = "pause" /\ lastOp.had)
    => \A j \in jobs : j.id = lastOp.id => j.paused

\* C37: a paused job is not made active by _schedule_routine, and while no
\* resume_routine or remove_routine was called after a pause_routine, no
\* step of reload_schedules gives the id an active job.
C37_PausedStaysPaused ==
    [][ScheduleKeepsPaused /\ PausedSinceLastOp']_vars

====
